---------------------------- MODULE Spec2Model ----------------------------
(***************************************************************************)
(* The advice-generation fallback chain of src/app.py:                     *)
(*   generate_ai_advice -> generate_huggingface_advice                     *)
(*                      -> generate_rule_based_advice                      *)
(*                                                                         *)
(* A Python str is a sequence of Unicode code points: "job" is             *)
(* <<106, 111, 98>>.  A comment after a literal gives its text.            *)
(***************************************************************************)
EXTENDS Integers, Sequences, FiniteSets, TLC

---------------------------------------------------------------------------
(* Bounds of the model.                                                    *)

\* Longest list of changes handed to generate_ai_advice.
MaxChanges == 2

---------------------------------------------------------------------------
(* Python str operations used by the code.                                 *)

\* The tables below list disjoint ranges of code points in ascending order, a row
\* starting with <<lo, hi>>.  The last row among rows lo..hi of table that starts at
\* or below c, lo - 1 when there is none.
RECURSIVE RowAtMost(_, _, _, _)
RowAtMost(c, table, lo, hi) ==
    IF lo > hi THEN lo - 1
    ELSE LET mid == (lo + hi) \div 2
         IN  IF table[mid][1] <= c THEN RowAtMost(c, table, mid + 1, hi)
             ELSE RowAtMost(c, table, lo, mid - 1)

\* c lies in one of the ranges of table.
InRanges(c, table) ==
    LET r == RowAtMost(c, table, 1, Len(table))
    IN  r > 0 /\ c <= table[r][2]

\* The ranges of the code points c with chr(c).lower() # chr(c), as <<lo, hi, step, delta>>:
\* every step-th code point from lo to hi lowers to itself plus delta (Unicode 14, CPython 3.11).
LowerRules ==
    << <<65,90,1,32>>, <<192,214,1,32>>, <<216,222,1,32>>, <<256,302,2,1>>, <<306,310,2,1>>, <<313,327,2,1>>, <<330,374,2,1>>, <<376,376,1,-121>>,
       <<377,381,2,1>>, <<385,385,1,210>>, <<386,388,2,1>>, <<390,390,1,206>>, <<391,391,1,1>>, <<393,394,1,205>>, <<395,395,1,1>>, <<398,398,1,79>>,
       <<399,399,1,202>>, <<400,400,1,203>>, <<401,401,1,1>>, <<403,403,1,205>>, <<404,404,1,207>>, <<406,406,1,211>>, <<407,407,1,209>>, <<408,408,1,1>>,
       <<412,412,1,211>>, <<413,413,1,213>>, <<415,415,1,214>>, <<416,420,2,1>>, <<422,422,1,218>>, <<423,423,1,1>>, <<425,425,1,218>>, <<428,428,1,1>>,
       <<430,430,1,218>>, <<431,431,1,1>>, <<433,434,1,217>>, <<435,437,2,1>>, <<439,439,1,219>>, <<440,440,1,1>>, <<444,444,1,1>>, <<452,452,1,2>>,
       <<453,453,1,1>>, <<455,455,1,2>>, <<456,456,1,1>>, <<458,458,1,2>>, <<459,475,2,1>>, <<478,494,2,1>>, <<497,497,1,2>>, <<498,500,2,1>>,
       <<502,502,1,-97>>, <<503,503,1,-56>>, <<504,542,2,1>>, <<544,544,1,-130>>, <<546,562,2,1>>, <<570,570,1,10795>>, <<571,571,1,1>>, <<573,573,1,-163>>,
       <<574,574,1,10792>>, <<577,577,1,1>>, <<579,579,1,-195>>, <<580,580,1,69>>, <<581,581,1,71>>, <<582,590,2,1>>, <<880,882,2,1>>, <<886,886,1,1>>,
       <<895,895,1,116>>, <<902,902,1,38>>, <<904,906,1,37>>, <<908,908,1,64>>, <<910,911,1,63>>, <<913,929,1,32>>, <<931,939,1,32>>, <<975,975,1,8>>,
       <<984,1006,2,1>>, <<1012,1012,1,-60>>, <<1015,1015,1,1>>, <<1017,1017,1,-7>>, <<1018,1018,1,1>>, <<1021,1023,1,-130>>, <<1024,1039,1,80>>, <<1040,1071,1,32>>,
       <<1120,1152,2,1>>, <<1162,1214,2,1>>, <<1216,1216,1,15>>, <<1217,1229,2,1>>, <<1232,1326,2,1>>, <<1329,1366,1,48>>, <<4256,4293,1,7264>>, <<4295,4295,1,7264>>,
       <<4301,4301,1,7264>>, <<5024,5103,1,38864>>, <<5104,5109,1,8>>, <<7312,7354,1,-3008>>, <<7357,7359,1,-3008>>, <<7680,7828,2,1>>, <<7838,7838,1,-7615>>, <<7840,7934,2,1>>,
       <<7944,7951,1,-8>>, <<7960,7965,1,-8>>, <<7976,7983,1,-8>>, <<7992,7999,1,-8>>, <<8008,8013,1,-8>>, <<8025,8031,2,-8>>, <<8040,8047,1,-8>>, <<8072,8079,1,-8>>,
       <<8088,8095,1,-8>>, <<8104,8111,1,-8>>, <<8120,8121,1,-8>>, <<8122,8123,1,-74>>, <<8124,8124,1,-9>>, <<8136,8139,1,-86>>, <<8140,8140,1,-9>>, <<8152,8153,1,-8>>,
       <<8154,8155,1,-100>>, <<8168,8169,1,-8>>, <<8170,8171,1,-112>>, <<8172,8172,1,-7>>, <<8184,8185,1,-128>>, <<8186,8187,1,-126>>, <<8188,8188,1,-9>>, <<8486,8486,1,-7517>>,
       <<8490,8490,1,-8383>>, <<8491,8491,1,-8262>>, <<8498,8498,1,28>>, <<8544,8559,1,16>>, <<8579,8579,1,1>>, <<9398,9423,1,26>>, <<11264,11311,1,48>>, <<11360,11360,1,1>>,
       <<11362,11362,1,-10743>>, <<11363,11363,1,-3814>>, <<11364,11364,1,-10727>>, <<11367,11371,2,1>>, <<11373,11373,1,-10780>>, <<11374,11374,1,-10749>>, <<11375,11375,1,-10783>>, <<11376,11376,1,-10782>>,
       <<11378,11378,1,1>>, <<11381,11381,1,1>>, <<11390,11391,1,-10815>>, <<11392,11490,2,1>>, <<11499,11501,2,1>>, <<11506,11506,1,1>>, <<42560,42604,2,1>>, <<42624,42650,2,1>>,
       <<42786,42798,2,1>>, <<42802,42862,2,1>>, <<42873,42875,2,1>>, <<42877,42877,1,-35332>>, <<42878,42886,2,1>>, <<42891,42891,1,1>>, <<42893,42893,1,-42280>>, <<42896,42898,2,1>>,
       <<42902,42920,2,1>>, <<42922,42922,1,-42308>>, <<42923,42923,1,-42319>>, <<42924,42924,1,-42315>>, <<42925,42925,1,-42305>>, <<42926,42926,1,-42308>>, <<42928,42928,1,-42258>>, <<42929,42929,1,-42282>>,
       <<42930,42930,1,-42261>>, <<42931,42931,1,928>>, <<42932,42946,2,1>>, <<42948,42948,1,-48>>, <<42949,42949,1,-42307>>, <<42950,42950,1,-35384>>, <<42951,42953,2,1>>, <<42960,42960,1,1>>,
       <<42966,42968,2,1>>, <<42997,42997,1,1>>, <<65313,65338,1,32>>, <<66560,66599,1,40>>, <<66736,66771,1,40>>, <<66928,66938,1,39>>, <<66940,66954,1,39>>, <<66956,66962,1,39>>,
       <<66964,66965,1,39>>, <<68736,68786,1,64>>, <<71840,71871,1,32>>, <<93760,93791,1,32>>, <<125184,125217,1,34>> >>

\* The ranges of the code points that are cased and not case-ignorable.
CasedRanges ==
    << <<65,90>>, <<97,122>>, <<170,170>>, <<181,181>>, <<186,186>>, <<192,214>>, <<216,246>>, <<248,442>>,
       <<444,447>>, <<452,659>>, <<661,687>>, <<880,883>>, <<886,887>>, <<891,893>>, <<895,895>>, <<902,902>>,
       <<904,906>>, <<908,908>>, <<910,929>>, <<931,1013>>, <<1015,1153>>, <<1162,1327>>, <<1329,1366>>, <<1376,1416>>,
       <<4256,4293>>, <<4295,4295>>, <<4301,4301>>, <<4304,4346>>, <<4349,4351>>, <<5024,5109>>, <<5112,5117>>, <<7296,7304>>,
       <<7312,7354>>, <<7357,7359>>, <<7424,7467>>, <<7531,7543>>, <<7545,7578>>, <<7680,7957>>, <<7960,7965>>, <<7968,8005>>,
       <<8008,8013>>, <<8016,8023>>, <<8025,8025>>, <<8027,8027>>, <<8029,8029>>, <<8031,8061>>, <<8064,8116>>, <<8118,8124>>,
       <<8126,8126>>, <<8130,8132>>, <<8134,8140>>, <<8144,8147>>, <<8150,8155>>, <<8160,8172>>, <<8178,8180>>, <<8182,8188>>,
       <<8450,8450>>, <<8455,8455>>, <<8458,8467>>, <<8469,8469>>, <<8473,8477>>, <<8484,8484>>, <<8486,8486>>, <<8488,8488>>,
       <<8490,8493>>, <<8495,8500>>, <<8505,8505>>, <<8508,8511>>, <<8517,8521>>, <<8526,8526>>, <<8544,8575>>, <<8579,8580>>,
       <<9398,9449>>, <<11264,11387>>, <<11390,11492>>, <<11499,11502>>, <<11506,11507>>, <<11520,11557>>, <<11559,11559>>, <<11565,11565>>,
       <<42560,42605>>, <<42624,42651>>, <<42786,42863>>, <<42865,42887>>, <<42891,42894>>, <<42896,42954>>, <<42960,42961>>, <<42963,42963>>,
       <<42965,42969>>, <<42997,42998>>, <<43002,43002>>, <<43824,43866>>, <<43872,43880>>, <<43888,43967>>, <<64256,64262>>, <<64275,64279>>,
       <<65313,65338>>, <<65345,65370>>, <<66560,66639>>, <<66736,66771>>, <<66776,66811>>, <<66928,66938>>, <<66940,66954>>, <<66956,66962>>,
       <<66964,66965>>, <<66967,66977>>, <<66979,66993>>, <<66995,67001>>, <<67003,67004>>, <<68736,68786>>, <<68800,68850>>, <<71840,71903>>,
       <<93760,93823>>, <<119808,119892>>, <<119894,119964>>, <<119966,119967>>, <<119970,119970>>, <<119973,119974>>, <<119977,119980>>, <<119982,119993>>,
       <<119995,119995>>, <<119997,120003>>, <<120005,120069>>, <<120071,120074>>, <<120077,120084>>, <<120086,120092>>, <<120094,120121>>, <<120123,120126>>,
       <<120128,120132>>, <<120134,120134>>, <<120138,120144>>, <<120146,120485>>, <<120488,120512>>, <<120514,120538>>, <<120540,120570>>, <<120572,120596>>,
       <<120598,120628>>, <<120630,120654>>, <<120656,120686>>, <<120688,120712>>, <<120714,120744>>, <<120746,120770>>, <<120772,120779>>, <<122624,122633>>,
       <<122635,122654>>, <<125184,125251>>, <<127280,127305>>, <<127312,127337>>, <<127344,127369>> >>

\* The ranges of the case-ignorable code points.
CaseIgnorableRanges ==
    << <<39,39>>, <<46,46>>, <<58,58>>, <<94,94>>, <<96,96>>, <<168,168>>, <<173,173>>, <<175,175>>,
       <<180,180>>, <<183,184>>, <<688,879>>, <<884,885>>, <<890,890>>, <<900,901>>, <<903,903>>, <<1155,1161>>,
       <<1369,1369>>, <<1375,1375>>, <<1425,1469>>, <<1471,1471>>, <<1473,1474>>, <<1476,1477>>, <<1479,1479>>, <<1524,1524>>,
       <<1536,1541>>, <<1552,1562>>, <<1564,1564>>, <<1600,1600>>, <<1611,1631>>, <<1648,1648>>, <<1750,1757>>, <<1759,1768>>,
       <<1770,1773>>, <<1807,1807>>, <<1809,1809>>, <<1840,1866>>, <<1958,1968>>, <<2027,2037>>, <<2042,2042>>, <<2045,2045>>,
       <<2070,2093>>, <<2137,2139>>, <<2184,2184>>, <<2192,2193>>, <<2200,2207>>, <<2249,2306>>, <<2362,2362>>, <<2364,2364>>,
       <<2369,2376>>, <<2381,2381>>, <<2385,2391>>, <<2402,2403>>, <<2417,2417>>, <<2433,2433>>, <<2492,2492>>, <<2497,2500>>,
       <<2509,2509>>, <<2530,2531>>, <<2558,2558>>, <<2561,2562>>, <<2620,2620>>, <<2625,2626>>, <<2631,2632>>, <<2635,2637>>,
       <<2641,2641>>, <<2672,2673>>, <<2677,2677>>, <<2689,2690>>, <<2748,2748>>, <<2753,2757>>, <<2759,2760>>, <<2765,2765>>,
       <<2786,2787>>, <<2810,2815>>, <<2817,2817>>, <<2876,2876>>, <<2879,2879>>, <<2881,2884>>, <<2893,2893>>, <<2901,2902>>,
       <<2914,2915>>, <<2946,2946>>, <<3008,3008>>, <<3021,3021>>, <<3072,3072>>, <<3076,3076>>, <<3132,3132>>, <<3134,3136>>,
       <<3142,3144>>, <<3146,3149>>, <<3157,3158>>, <<3170,3171>>, <<3201,3201>>, <<3260,3260>>, <<3263,3263>>, <<3270,3270>>,
       <<3276,3277>>, <<3298,3299>>, <<3328,3329>>, <<3387,3388>>, <<3393,3396>>, <<3405,3405>>, <<3426,3427>>, <<3457,3457>>,
       <<3530,3530>>, <<3538,3540>>, <<3542,3542>>, <<3633,3633>>, <<3636,3642>>, <<3654,3662>>, <<3761,3761>>, <<3764,3772>>,
       <<3782,3782>>, <<3784,3789>>, <<3864,3865>>, <<3893,3893>>, <<3895,3895>>, <<3897,3897>>, <<3953,3966>>, <<3968,3972>>,
       <<3974,3975>>, <<3981,3991>>, <<3993,4028>>, <<4038,4038>>, <<4141,4144>>, <<4146,4151>>, <<4153,4154>>, <<4157,4158>>,
       <<4184,4185>>, <<4190,4192>>, <<4209,4212>>, <<4226,4226>>, <<4229,4230>>, <<4237,4237>>, <<4253,4253>>, <<4348,4348>>,
       <<4957,4959>>, <<5906,5908>>, <<5938,5939>>, <<5970,5971>>, <<6002,6003>>, <<6068,6069>>, <<6071,6077>>, <<6086,6086>>,
       <<6089,6099>>, <<6103,6103>>, <<6109,6109>>, <<6155,6159>>, <<6211,6211>>, <<6277,6278>>, <<6313,6313>>, <<6432,6434>>,
       <<6439,6440>>, <<6450,6450>>, <<6457,6459>>, <<6679,6680>>, <<6683,6683>>, <<6742,6742>>, <<6744,6750>>, <<6752,6752>>,
       <<6754,6754>>, <<6757,6764>>, <<6771,6780>>, <<6783,6783>>, <<6823,6823>>, <<6832,6862>>, <<6912,6915>>, <<6964,6964>>,
       <<6966,6970>>, <<6972,6972>>, <<6978,6978>>, <<7019,7027>>, <<7040,7041>>, <<7074,7077>>, <<7080,7081>>, <<7083,7085>>,
       <<7142,7142>>, <<7144,7145>>, <<7149,7149>>, <<7151,7153>>, <<7212,7219>>, <<7222,7223>>, <<7288,7293>>, <<7376,7378>>,
       <<7380,7392>>, <<7394,7400>>, <<7405,7405>>, <<7412,7412>>, <<7416,7417>>, <<7468,7530>>, <<7544,7544>>, <<7579,7679>>,
       <<8125,8125>>, <<8127,8129>>, <<8141,8143>>, <<8157,8159>>, <<8173,8175>>, <<8189,8190>>, <<8203,8207>>, <<8216,8217>>,
       <<8228,8228>>, <<8231,8231>>, <<8234,8238>>, <<8288,8292>>, <<8294,8303>>, <<8305,8305>>, <<8319,8319>>, <<8336,8348>>,
       <<8400,8432>>, <<11388,11389>>, <<11503,11505>>, <<11631,11631>>, <<11647,11647>>, <<11744,11775>>, <<11823,11823>>, <<12293,12293>>,
       <<12330,12333>>, <<12337,12341>>, <<12347,12347>>, <<12441,12446>>, <<12540,12542>>, <<40981,40981>>, <<42232,42237>>, <<42508,42508>>,
       <<42607,42610>>, <<42612,42621>>, <<42623,42623>>, <<42652,42655>>, <<42736,42737>>, <<42752,42785>>, <<42864,42864>>, <<42888,42890>>,
       <<42994,42996>>, <<43000,43001>>, <<43010,43010>>, <<43014,43014>>, <<43019,43019>>, <<43045,43046>>, <<43052,43052>>, <<43204,43205>>,
       <<43232,43249>>, <<43263,43263>>, <<43302,43309>>, <<43335,43345>>, <<43392,43394>>, <<43443,43443>>, <<43446,43449>>, <<43452,43453>>,
       <<43471,43471>>, <<43493,43494>>, <<43561,43566>>, <<43569,43570>>, <<43573,43574>>, <<43587,43587>>, <<43596,43596>>, <<43632,43632>>,
       <<43644,43644>>, <<43696,43696>>, <<43698,43700>>, <<43703,43704>>, <<43710,43711>>, <<43713,43713>>, <<43741,43741>>, <<43756,43757>>,
       <<43763,43764>>, <<43766,43766>>, <<43867,43871>>, <<43881,43883>>, <<44005,44005>>, <<44008,44008>>, <<44013,44013>>, <<64286,64286>>,
       <<64434,64450>>, <<65024,65039>>, <<65043,65043>>, <<65056,65071>>, <<65106,65106>>, <<65109,65109>>, <<65279,65279>>, <<65287,65287>>,
       <<65294,65294>>, <<65306,65306>>, <<65342,65342>>, <<65344,65344>>, <<65392,65392>>, <<65438,65439>>, <<65507,65507>>, <<65529,65531>>,
       <<66045,66045>>, <<66272,66272>>, <<66422,66426>>, <<67456,67461>>, <<67463,67504>>, <<67506,67514>>, <<68097,68099>>, <<68101,68102>>,
       <<68108,68111>>, <<68152,68154>>, <<68159,68159>>, <<68325,68326>>, <<68900,68903>>, <<69291,69292>>, <<69446,69456>>, <<69506,69509>>,
       <<69633,69633>>, <<69688,69702>>, <<69744,69744>>, <<69747,69748>>, <<69759,69761>>, <<69811,69814>>, <<69817,69818>>, <<69821,69821>>,
       <<69826,69826>>, <<69837,69837>>, <<69888,69890>>, <<69927,69931>>, <<69933,69940>>, <<70003,70003>>, <<70016,70017>>, <<70070,70078>>,
       <<70089,70092>>, <<70095,70095>>, <<70191,70193>>, <<70196,70196>>, <<70198,70199>>, <<70206,70206>>, <<70367,70367>>, <<70371,70378>>,
       <<70400,70401>>, <<70459,70460>>, <<70464,70464>>, <<70502,70508>>, <<70512,70516>>, <<70712,70719>>, <<70722,70724>>, <<70726,70726>>,
       <<70750,70750>>, <<70835,70840>>, <<70842,70842>>, <<70847,70848>>, <<70850,70851>>, <<71090,71093>>, <<71100,71101>>, <<71103,71104>>,
       <<71132,71133>>, <<71219,71226>>, <<71229,71229>>, <<71231,71232>>, <<71339,71339>>, <<71341,71341>>, <<71344,71349>>, <<71351,71351>>,
       <<71453,71455>>, <<71458,71461>>, <<71463,71467>>, <<71727,71735>>, <<71737,71738>>, <<71995,71996>>, <<71998,71998>>, <<72003,72003>>,
       <<72148,72151>>, <<72154,72155>>, <<72160,72160>>, <<72193,72202>>, <<72243,72248>>, <<72251,72254>>, <<72263,72263>>, <<72273,72278>>,
       <<72281,72283>>, <<72330,72342>>, <<72344,72345>>, <<72752,72758>>, <<72760,72765>>, <<72767,72767>>, <<72850,72871>>, <<72874,72880>>,
       <<72882,72883>>, <<72885,72886>>, <<73009,73014>>, <<73018,73018>>, <<73020,73021>>, <<73023,73029>>, <<73031,73031>>, <<73104,73105>>,
       <<73109,73109>>, <<73111,73111>>, <<73459,73460>>, <<78896,78904>>, <<92912,92916>>, <<92976,92982>>, <<92992,92995>>, <<94031,94031>>,
       <<94095,94111>>, <<94176,94177>>, <<94179,94180>>, <<110576,110579>>, <<110581,110587>>, <<110589,110590>>, <<113821,113822>>, <<113824,113827>>,
       <<118528,118573>>, <<118576,118598>>, <<119143,119145>>, <<119155,119170>>, <<119173,119179>>, <<119210,119213>>, <<119362,119364>>, <<121344,121398>>,
       <<121403,121452>>, <<121461,121461>>, <<121476,121476>>, <<121499,121503>>, <<121505,121519>>, <<122880,122886>>, <<122888,122904>>, <<122907,122913>>,
       <<122915,122916>>, <<122918,122922>>, <<123184,123197>>, <<123566,123566>>, <<123628,123631>>, <<125136,125142>>, <<125252,125259>>, <<127995,127999>>,
       <<917505,917505>>, <<917536,917631>>, <<917760,917999>> >>

\* chr(c).lower(): one code point, two for U+0130.
lower_char(c) ==
    IF c < 65 \/ (c > 90 /\ c < 192) THEN <<c>>
    ELSE IF c = 304 THEN <<105, 775>>
    ELSE LET r == RowAtMost(c, LowerRules, 1, Len(LowerRules))
         IN  IF r > 0 /\ c <= LowerRules[r][2] /\ (c - LowerRules[r][1]) % LowerRules[r][3] = 0
             THEN <<c + LowerRules[r][4]>>
             ELSE <<c>>

\* Going back from position j of s, the first code point that is not case-ignorable is cased.
RECURSIVE cased_before(_, _)
cased_before(s, j) ==
    IF j = 0 THEN FALSE
    ELSE IF InRanges(s[j], CaseIgnorableRanges) THEN cased_before(s, j - 1)
    ELSE InRanges(s[j], CasedRanges)

\* Going on from position j of s, the first code point that is not case-ignorable is cased.
RECURSIVE cased_after(_, _)
cased_after(s, j) ==
    IF j > Len(s) THEN FALSE
    ELSE IF InRanges(s[j], CaseIgnorableRanges) THEN cased_after(s, j + 1)
    ELSE InRanges(s[j], CasedRanges)

\* The capital sigma at position i ends a word: a cased code point comes before it and none
\* after it, case-ignorable code points skipped.
final_sigma(s, i) == cased_before(s, i - 1) /\ ~cased_after(s, i + 1)

\* What position i of s contributes to s.lower().
lower_at(s, i) ==
    IF s[i] = 931 THEN (IF final_sigma(s, i) THEN <<962>> ELSE <<963>>) ELSE lower_char(s[i])

\* s[lo..hi] lowered, within s.
RECURSIVE LowerSlice(_, _, _)
LowerSlice(s, lo, hi) ==
    IF lo > hi THEN << >>
    ELSE IF lo = hi THEN lower_at(s, lo)
    ELSE LowerSlice(s, lo, (lo + hi) \div 2) \o LowerSlice(s, ((lo + hi) \div 2) + 1, hi)

\* str.lower(); ASCII text lowers code point by code point.
str_lower(s) ==
    IF \A i \in 1..Len(s) : s[i] < 128
    THEN [i \in 1..Len(s) |-> IF 65 <= s[i] /\ s[i] <= 90 THEN s[i] + 32 ELSE s[i]]
    ELSE LowerSlice(s, 1, Len(s))

\* The code points str.strip() removes, those with chr(c).isspace(): \t \n \x0b \f \r,
\* \x1c to \x1f, space, U+0085, U+00A0, U+1680, U+2000 to U+200A, U+2028, U+2029, U+202F,
\* U+205F, U+3000.
Whitespace ==
    { 9, 10, 11, 12, 13, 28, 29, 30, 31, 32, 133, 160, 5760,
      8192, 8193, 8194, 8195, 8196, 8197, 8198, 8199, 8200, 8201, 8202,
      8232, 8233, 8239, 8287, 12288 }

\* The first position from i on where s has no whitespace, Len(s) + 1 when there is none.
RECURSIVE lstrip_at(_, _)
lstrip_at(s, i) == IF i <= Len(s) /\ s[i] \in Whitespace THEN lstrip_at(s, i + 1) ELSE i

\* The last position from j down to i where s has no whitespace, i - 1 when there is none.
RECURSIVE rstrip_at(_, _, _)
rstrip_at(s, i, j) == IF j >= i /\ s[j] \in Whitespace THEN rstrip_at(s, i, j - 1) ELSE j

\* str.strip(): drop the leading and the trailing whitespace.
str_strip(s) ==
    LET i == lstrip_at(s, 1)
    IN  SubSeq(s, i, rstrip_at(s, i, Len(s)))

\* sub occurs in s at position i.
OccursAt(s, sub, i) ==
    /\ i + Len(sub) - 1 <= Len(s)
    /\ \A k \in 1..Len(sub) : s[i + k - 1] = sub[k]

\* `sub in s` for two strs.
str_contains(s, sub) == \E i \in 1..(Len(s) - Len(sub) + 1) : OccursAt(s, sub, i)

\* str.replace(old, new) from position i on: the leftmost occurrences, not overlapping.
RECURSIVE ReplaceFrom(_, _, _, _)
ReplaceFrom(s, old, new, i) ==
    LET found == {j \in i..(Len(s) - Len(old) + 1) : OccursAt(s, old, j)}
    IN  IF found = {} THEN SubSeq(s, i, Len(s))
        ELSE LET p == CHOOSE j \in found : \A k \in found : j <= k
             IN  SubSeq(s, i, p - 1) \o new \o ReplaceFrom(s, old, new, p + Len(old))

\* str.replace(old, new), old not empty.
str_replace(s, old, new) == ReplaceFrom(s, old, new, 1)

\* sep.join(parts) over the first n parts.
RECURSIVE JoinUpTo(_, _, _)
JoinUpTo(sep, parts, n) ==
    IF n = 0 THEN << >>
    ELSE IF n = 1 THEN parts[1]
    ELSE JoinUpTo(sep, parts, n - 1) \o sep \o parts[n]

\* sep.join(parts)
str_join(sep, parts) == JoinUpTo(sep, parts, Len(parts))

\* str(n) of an int n >= 0.
RECURSIVE nat_str(_)
nat_str(n) == IF n < 10 THEN <<48 + n>> ELSE nat_str(n \div 10) \o <<48 + (n % 10)>>

\* str(n) of an int, as the f-string formats response.status_code.
int_str(n) == IF n < 0 THEN <<45 (* - *)>> \o nat_str(-n) ELSE nat_str(n)

---------------------------------------------------------------------------
(* generate_rule_based_advice, src/app.py lines 129-152.                   *)

\* 'income', 'salary', 'revenue'
IncomeWords     == << <<105,110,99,111,109,101>> (* "income" *), <<115,97,108,97,114,121>> (* "salary" *), <<114,101,118,101,110,117,101>> (* "revenue" *) >>
\* 'debt', 'loan', 'liability'
DebtWords       == << <<100,101,98,116>> (* "debt" *), <<108,111,97,110>> (* "loan" *), <<108,105,97,98,105,108,105,116,121>> (* "liability" *) >>
\* 'credit', 'score', 'history'
CreditWords     == << <<99,114,101,100,105,116>> (* "credit" *), <<115,99,111,114,101>> (* "score" *), <<104,105,115,116,111,114,121>> (* "history" *) >>
\* 'collateral', 'asset', 'property'
CollateralWords == << <<99,111,108,108,97,116,101,114,97,108>> (* "collateral" *), <<97,115,115,101,116>> (* "asset" *), <<112,114,111,112,101,114,116,121>> (* "property" *) >>
\* 'guarantor', 'co-signer'
GuarantorWords  == << <<103,117,97,114,97,110,116,111,114>> (* "guarantor" *), <<99,111,45,115,105,103,110,101,114>> (* "co-signer" *) >>
\* 'employment', 'job', 'business'
EmploymentWords == << <<101,109,112,108,111,121,109,101,110,116>> (* "employment" *), <<106,111,98>> (* "job" *), <<98,117,115,105,110,101,115,115>> (* "business" *) >>

\* U+201A U+00C4 U+00A2, " Increase verifiable income sources through employment documents or business records"
IncomeLine ==
    <<8218,196,162,32,73,110,99,114,101,97,115,101,32,118,101,114,105,102,105,97,98,108,101,32,105,
      110,99,111,109,101,32,115,111,117,114,99,101,115,32,116,104,114,111,117,103,104,32,101,
      109,112,108,111,121,109,101,110,116,32,100,111,99,117,109,101,110,116,115,32,111,114,32,
      98,117,115,105,110,101,115,115,32,114,101,99,111,114,100,115>> (* "\u201a\u00c4\u00a2 Increase verifiable income sources through employment documents or business records" *)
\* U+201A U+00C4 U+00A2, " Reduce existing debt-to-income ratio by paying down current obligations"
DebtLine ==
    <<8218,196,162,32,82,101,100,117,99,101,32,101,120,105,115,116,105,110,103,32,100,101,98,116,45,
      116,111,45,105,110,99,111,109,101,32,114,97,116,105,111,32,98,121,32,112,97,121,105,110,
      103,32,100,111,119,110,32,99,117,114,114,101,110,116,32,111,98,108,105,103,97,116,105,111,
      110,115>> (* "\u201a\u00c4\u00a2 Reduce existing debt-to-income ratio by paying down current obligations" *)
\* U+201A U+00C4 U+00A2, " Improve credit history by ensuring all existing accounts are in good standing"
CreditLine ==
    <<8218,196,162,32,73,109,112,114,111,118,101,32,99,114,101,100,105,116,32,104,105,115,116,111,
      114,121,32,98,121,32,101,110,115,117,114,105,110,103,32,97,108,108,32,101,120,105,115,116,
      105,110,103,32,97,99,99,111,117,110,116,115,32,97,114,101,32,105,110,32,103,111,111,100,
      32,115,116,97,110,100,105,110,103>> (* "\u201a\u00c4\u00a2 Improve credit history by ensuring all existing accounts are in good standing" *)
\* U+201A U+00C4 U+00A2, " Provide additional collateral documentation to strengthen your application"
CollateralLine ==
    <<8218,196,162,32,80,114,111,118,105,100,101,32,97,100,100,105,116,105,111,110,97,108,32,99,111,
      108,108,97,116,101,114,97,108,32,100,111,99,117,109,101,110,116,97,116,105,111,110,32,116,
      111,32,115,116,114,101,110,103,116,104,101,110,32,121,111,117,114,32,97,112,112,108,105,
      99,97,116,105,111,110>> (* "\u201a\u00c4\u00a2 Provide additional collateral documentation to strengthen your application" *)
\* U+201A U+00C4 U+00A2, " Consider adding a creditworthy guarantor to support your application"
GuarantorLine ==
    <<8218,196,162,32,67,111,110,115,105,100,101,114,32,97,100,100,105,110,103,32,97,32,99,114,101,
      100,105,116,119,111,114,116,104,121,32,103,117,97,114,97,110,116,111,114,32,116,111,32,
      115,117,112,112,111,114,116,32,121,111,117,114,32,97,112,112,108,105,99,97,116,105,111,
      110>> (* "\u201a\u00c4\u00a2 Consider adding a creditworthy guarantor to support your application" *)
\* U+201A U+00C4 U+00A2, " Demonstrate stable employment or business history with documentation"
EmploymentLine ==
    <<8218,196,162,32,68,101,109,111,110,115,116,114,97,116,101,32,115,116,97,98,108,101,32,101,109,
      112,108,111,121,109,101,110,116,32,111,114,32,98,117,115,105,110,101,115,115,32,104,105,
      115,116,111,114,121,32,119,105,116,104,32,100,111,99,117,109,101,110,116,97,116,105,111,
      110>> (* "\u201a\u00c4\u00a2 Demonstrate stable employment or business history with documentation" *)

\* any(word in change_lower for word in words)
any_word_in(change_lower, words) ==
    \E w \in 1..Len(words) : str_contains(change_lower, words[w])

\* The chain with the collateral branch tested before the debt branch.
AdviceForCollateralFirst(change) ==
    LET change_lower == str_lower(change)
    IN  IF any_word_in(change_lower, IncomeWords) THEN <<IncomeLine>>
        ELSE IF any_word_in(change_lower, CollateralWords) THEN <<CollateralLine>>
        ELSE IF any_word_in(change_lower, DebtWords) THEN <<DebtLine>>
        ELSE IF any_word_in(change_lower, CreditWords) THEN <<CreditLine>>
        ELSE IF any_word_in(change_lower, GuarantorWords) THEN <<GuarantorLine>>
        ELSE IF any_word_in(change_lower, EmploymentWords) THEN <<EmploymentLine>>
        ELSE << >>

\* One pass of the loop body: the lines (one or none) a change appends to advice.
AdviceFor(change) ==
    LET change_lower == str_lower(change)
    IN  IF any_word_in(change_lower, IncomeWords) THEN <<IncomeLine>>
        ELSE IF any_word_in(change_lower, DebtWords) THEN <<DebtLine>>
        ELSE IF any_word_in(change_lower, CreditWords) THEN <<CreditLine>>
        ELSE IF any_word_in(change_lower, CollateralWords) THEN <<CollateralLine>>
        ELSE IF any_word_in(change_lower, GuarantorWords) THEN <<GuarantorLine>>
        ELSE IF any_word_in(change_lower, EmploymentWords) THEN <<EmploymentLine>>
        ELSE << >>

\* The list advice after the loop over the first n changes.
RECURSIVE AdviceLoop(_, _)
AdviceLoop(cs, n) == IF n = 0 THEN << >> ELSE AdviceLoop(cs, n - 1) \o AdviceFor(cs[n])

\* The list advice after the whole loop.
AdviceList(cs) == AdviceLoop(cs, Len(cs))

\* The return of the `if advice:` branch:
\* f"For your {loan_type} application, I recommend:\n\n" + "\n".join(advice)
RecommendText(lst, lt) ==
    <<70,111,114,32,121,111,117,114,32>> (* "For your " *) \o lt \o <<32,97,112,112,108,105,99,97,116,105,111,110,44,32,73,32,114,101,99,111,109,109,101,110,100,58,
                             10,10>> (* " application, I recommend:\n\n" *) \o str_join(<<10 (* \n *)>>, lst)

\* The return of the else branch: f"For {loan_type} applications, focus on improving income
\* verification, reducing existing debts, and providing strong collateral documentation."
GenericText(lt) ==
    <<70,111,114,32>> (* "For " *) \o lt \o <<32,97,112,112,108,105,99,97,116,105,111,110,115,44,32,102,111,99,117,115,32,111,110,32,105,
                        109,112,114,111,118,105,110,103,32,105,110,99,111,109,101,32,118,101,
                        114,105,102,105,99,97,116,105,111,110,44,32,114,101,100,117,99,105,110,
                        103,32,101,120,105,115,116,105,110,103,32,100,101,98,116,115,44,32,97,
                        110,100,32,112,114,111,118,105,100,105,110,103,32,115,116,114,111,110,
                        103,32,99,111,108,108,97,116,101,114,97,108,32,100,111,99,117,109,101,
                        110,116,97,116,105,111,110,46>> (* " applications, focus on improving income verification, reducing existing debts, and providing strong collateral documentation." *)

\* The advisor with `if advice is not None:` for `if advice:`.
RuleBasedNotNone(cs, lt) == RecommendText(AdviceList(cs), lt)

\* The advisor with a rule of its own for one loan type.
RuleBasedHomeLoanRule(cs, lt) ==
    LET lst == (IF lt = <<72,111,109,101,32,76,111,97,110>> (* "Home Loan" *) THEN <<CollateralLine>> ELSE << >>) \o AdviceList(cs)
    IN  IF lst # << >> THEN RecommendText(lst, lt) ELSE GenericText(lt)

generate_rule_based_advice(cs, lt) ==
    LET lst == AdviceList(cs)
    IN  IF lst # << >> THEN RecommendText(lst, lt) ELSE GenericText(lt)

---------------------------------------------------------------------------
(* What response.json() returns: a JSON value.  t names the Python type,   *)
(* n holds an int, s a str, items a list's items or a dict's values, keys  *)
(* a dict's keys (in order).                                               *)

JNull            == [t |-> "null",  n |-> 0, s |-> << >>, keys |-> << >>, items |-> << >>]
JBool(b)         == [t |-> "bool",  n |-> IF b THEN 1 ELSE 0,
                                             s |-> << >>, keys |-> << >>, items |-> << >>]
JInt(k)          == [t |-> "int",   n |-> k, s |-> << >>, keys |-> << >>, items |-> << >>]
\* A float is held by its repr, "1.5" or "1e+16".
JFloat(text)     == [t |-> "float", n |-> 0, s |-> text,  keys |-> << >>, items |-> << >>]
JStr(text)       == [t |-> "str",   n |-> 0, s |-> text,  keys |-> << >>, items |-> << >>]
JList(vals)      == [t |-> "list",  n |-> 0, s |-> << >>, keys |-> << >>, items |-> vals]
JDict(ks, vals)  == [t |-> "dict",  n |-> 0, s |-> << >>, keys |-> ks,    items |-> vals]

\* The ranges of the code points with chr(c).isprintable() false (Unicode 14, CPython 3.11).
NonPrintableRanges ==
    << <<0,31>>, <<127,160>>, <<173,173>>, <<888,889>>, <<896,899>>, <<907,907>>, <<909,909>>, <<930,930>>,
       <<1328,1328>>, <<1367,1368>>, <<1419,1420>>, <<1424,1424>>, <<1480,1487>>, <<1515,1518>>, <<1525,1541>>, <<1564,1564>>,
       <<1757,1757>>, <<1806,1807>>, <<1867,1868>>, <<1970,1983>>, <<2043,2044>>, <<2094,2095>>, <<2111,2111>>, <<2140,2141>>,
       <<2143,2143>>, <<2155,2159>>, <<2191,2199>>, <<2274,2274>>, <<2436,2436>>, <<2445,2446>>, <<2449,2450>>, <<2473,2473>>,
       <<2481,2481>>, <<2483,2485>>, <<2490,2491>>, <<2501,2502>>, <<2505,2506>>, <<2511,2518>>, <<2520,2523>>, <<2526,2526>>,
       <<2532,2533>>, <<2559,2560>>, <<2564,2564>>, <<2571,2574>>, <<2577,2578>>, <<2601,2601>>, <<2609,2609>>, <<2612,2612>>,
       <<2615,2615>>, <<2618,2619>>, <<2621,2621>>, <<2627,2630>>, <<2633,2634>>, <<2638,2640>>, <<2642,2648>>, <<2653,2653>>,
       <<2655,2661>>, <<2679,2688>>, <<2692,2692>>, <<2702,2702>>, <<2706,2706>>, <<2729,2729>>, <<2737,2737>>, <<2740,2740>>,
       <<2746,2747>>, <<2758,2758>>, <<2762,2762>>, <<2766,2767>>, <<2769,2783>>, <<2788,2789>>, <<2802,2808>>, <<2816,2816>>,
       <<2820,2820>>, <<2829,2830>>, <<2833,2834>>, <<2857,2857>>, <<2865,2865>>, <<2868,2868>>, <<2874,2875>>, <<2885,2886>>,
       <<2889,2890>>, <<2894,2900>>, <<2904,2907>>, <<2910,2910>>, <<2916,2917>>, <<2936,2945>>, <<2948,2948>>, <<2955,2957>>,
       <<2961,2961>>, <<2966,2968>>, <<2971,2971>>, <<2973,2973>>, <<2976,2978>>, <<2981,2983>>, <<2987,2989>>, <<3002,3005>>,
       <<3011,3013>>, <<3017,3017>>, <<3022,3023>>, <<3025,3030>>, <<3032,3045>>, <<3067,3071>>, <<3085,3085>>, <<3089,3089>>,
       <<3113,3113>>, <<3130,3131>>, <<3141,3141>>, <<3145,3145>>, <<3150,3156>>, <<3159,3159>>, <<3163,3164>>, <<3166,3167>>,
       <<3172,3173>>, <<3184,3190>>, <<3213,3213>>, <<3217,3217>>, <<3241,3241>>, <<3252,3252>>, <<3258,3259>>, <<3269,3269>>,
       <<3273,3273>>, <<3278,3284>>, <<3287,3292>>, <<3295,3295>>, <<3300,3301>>, <<3312,3312>>, <<3315,3327>>, <<3341,3341>>,
       <<3345,3345>>, <<3397,3397>>, <<3401,3401>>, <<3408,3411>>, <<3428,3429>>, <<3456,3456>>, <<3460,3460>>, <<3479,3481>>,
       <<3506,3506>>, <<3516,3516>>, <<3518,3519>>, <<3527,3529>>, <<3531,3534>>, <<3541,3541>>, <<3543,3543>>, <<3552,3557>>,
       <<3568,3569>>, <<3573,3584>>, <<3643,3646>>, <<3676,3712>>, <<3715,3715>>, <<3717,3717>>, <<3723,3723>>, <<3748,3748>>,
       <<3750,3750>>, <<3774,3775>>, <<3781,3781>>, <<3783,3783>>, <<3790,3791>>, <<3802,3803>>, <<3808,3839>>, <<3912,3912>>,
       <<3949,3952>>, <<3992,3992>>, <<4029,4029>>, <<4045,4045>>, <<4059,4095>>, <<4294,4294>>, <<4296,4300>>, <<4302,4303>>,
       <<4681,4681>>, <<4686,4687>>, <<4695,4695>>, <<4697,4697>>, <<4702,4703>>, <<4745,4745>>, <<4750,4751>>, <<4785,4785>>,
       <<4790,4791>>, <<4799,4799>>, <<4801,4801>>, <<4806,4807>>, <<4823,4823>>, <<4881,4881>>, <<4886,4887>>, <<4955,4956>>,
       <<4989,4991>>, <<5018,5023>>, <<5110,5111>>, <<5118,5119>>, <<5760,5760>>, <<5789,5791>>, <<5881,5887>>, <<5910,5918>>,
       <<5943,5951>>, <<5972,5983>>, <<5997,5997>>, <<6001,6001>>, <<6004,6015>>, <<6110,6111>>, <<6122,6127>>, <<6138,6143>>,
       <<6158,6158>>, <<6170,6175>>, <<6265,6271>>, <<6315,6319>>, <<6390,6399>>, <<6431,6431>>, <<6444,6447>>, <<6460,6463>>,
       <<6465,6467>>, <<6510,6511>>, <<6517,6527>>, <<6572,6575>>, <<6602,6607>>, <<6619,6621>>, <<6684,6685>>, <<6751,6751>>,
       <<6781,6782>>, <<6794,6799>>, <<6810,6815>>, <<6830,6831>>, <<6863,6911>>, <<6989,6991>>, <<7039,7039>>, <<7156,7163>>,
       <<7224,7226>>, <<7242,7244>>, <<7305,7311>>, <<7355,7356>>, <<7368,7375>>, <<7419,7423>>, <<7958,7959>>, <<7966,7967>>,
       <<8006,8007>>, <<8014,8015>>, <<8024,8024>>, <<8026,8026>>, <<8028,8028>>, <<8030,8030>>, <<8062,8063>>, <<8117,8117>>,
       <<8133,8133>>, <<8148,8149>>, <<8156,8156>>, <<8176,8177>>, <<8181,8181>>, <<8191,8207>>, <<8232,8239>>, <<8287,8303>>,
       <<8306,8307>>, <<8335,8335>>, <<8349,8351>>, <<8385,8399>>, <<8433,8447>>, <<8588,8591>>, <<9255,9279>>, <<9291,9311>>,
       <<11124,11125>>, <<11158,11158>>, <<11508,11512>>, <<11558,11558>>, <<11560,11564>>, <<11566,11567>>, <<11624,11630>>, <<11633,11646>>,
       <<11671,11679>>, <<11687,11687>>, <<11695,11695>>, <<11703,11703>>, <<11711,11711>>, <<11719,11719>>, <<11727,11727>>, <<11735,11735>>,
       <<11743,11743>>, <<11870,11903>>, <<11930,11930>>, <<12020,12031>>, <<12246,12271>>, <<12284,12288>>, <<12352,12352>>, <<12439,12440>>,
       <<12544,12548>>, <<12592,12592>>, <<12687,12687>>, <<12772,12783>>, <<12831,12831>>, <<42125,42127>>, <<42183,42191>>, <<42540,42559>>,
       <<42744,42751>>, <<42955,42959>>, <<42962,42962>>, <<42964,42964>>, <<42970,42993>>, <<43053,43055>>, <<43066,43071>>, <<43128,43135>>,
       <<43206,43213>>, <<43226,43231>>, <<43348,43358>>, <<43389,43391>>, <<43470,43470>>, <<43482,43485>>, <<43519,43519>>, <<43575,43583>>,
       <<43598,43599>>, <<43610,43611>>, <<43715,43738>>, <<43767,43776>>, <<43783,43784>>, <<43791,43792>>, <<43799,43807>>, <<43815,43815>>,
       <<43823,43823>>, <<43884,43887>>, <<44014,44015>>, <<44026,44031>>, <<55204,55215>>, <<55239,55242>>, <<55292,63743>>, <<64110,64111>>,
       <<64218,64255>>, <<64263,64274>>, <<64280,64284>>, <<64311,64311>>, <<64317,64317>>, <<64319,64319>>, <<64322,64322>>, <<64325,64325>>,
       <<64451,64466>>, <<64912,64913>>, <<64968,64974>>, <<64976,65007>>, <<65050,65055>>, <<65107,65107>>, <<65127,65127>>, <<65132,65135>>,
       <<65141,65141>>, <<65277,65280>>, <<65471,65473>>, <<65480,65481>>, <<65488,65489>>, <<65496,65497>>, <<65501,65503>>, <<65511,65511>>,
       <<65519,65531>>, <<65534,65535>>, <<65548,65548>>, <<65575,65575>>, <<65595,65595>>, <<65598,65598>>, <<65614,65615>>, <<65630,65663>>,
       <<65787,65791>>, <<65795,65798>>, <<65844,65846>>, <<65935,65935>>, <<65949,65951>>, <<65953,65999>>, <<66046,66175>>, <<66205,66207>>,
       <<66257,66271>>, <<66300,66303>>, <<66340,66348>>, <<66379,66383>>, <<66427,66431>>, <<66462,66462>>, <<66500,66503>>, <<66518,66559>>,
       <<66718,66719>>, <<66730,66735>>, <<66772,66775>>, <<66812,66815>>, <<66856,66863>>, <<66916,66926>>, <<66939,66939>>, <<66955,66955>>,
       <<66963,66963>>, <<66966,66966>>, <<66978,66978>>, <<66994,66994>>, <<67002,67002>>, <<67005,67071>>, <<67383,67391>>, <<67414,67423>>,
       <<67432,67455>>, <<67462,67462>>, <<67505,67505>>, <<67515,67583>>, <<67590,67591>>, <<67593,67593>>, <<67638,67638>>, <<67641,67643>>,
       <<67645,67646>>, <<67670,67670>>, <<67743,67750>>, <<67760,67807>>, <<67827,67827>>, <<67830,67834>>, <<67868,67870>>, <<67898,67902>>,
       <<67904,67967>>, <<68024,68027>>, <<68048,68049>>, <<68100,68100>>, <<68103,68107>>, <<68116,68116>>, <<68120,68120>>, <<68150,68151>>,
       <<68155,68158>>, <<68169,68175>>, <<68185,68191>>, <<68256,68287>>, <<68327,68330>>, <<68343,68351>>, <<68406,68408>>, <<68438,68439>>,
       <<68467,68471>>, <<68498,68504>>, <<68509,68520>>, <<68528,68607>>, <<68681,68735>>, <<68787,68799>>, <<68851,68857>>, <<68904,68911>>,
       <<68922,69215>>, <<69247,69247>>, <<69290,69290>>, <<69294,69295>>, <<69298,69375>>, <<69416,69423>>, <<69466,69487>>, <<69514,69551>>,
       <<69580,69599>>, <<69623,69631>>, <<69710,69713>>, <<69750,69758>>, <<69821,69821>>, <<69827,69839>>, <<69865,69871>>, <<69882,69887>>,
       <<69941,69941>>, <<69960,69967>>, <<70007,70015>>, <<70112,70112>>, <<70133,70143>>, <<70162,70162>>, <<70207,70271>>, <<70279,70279>>,
       <<70281,70281>>, <<70286,70286>>, <<70302,70302>>, <<70314,70319>>, <<70379,70383>>, <<70394,70399>>, <<70404,70404>>, <<70413,70414>>,
       <<70417,70418>>, <<70441,70441>>, <<70449,70449>>, <<70452,70452>>, <<70458,70458>>, <<70469,70470>>, <<70473,70474>>, <<70478,70479>>,
       <<70481,70486>>, <<70488,70492>>, <<70500,70501>>, <<70509,70511>>, <<70517,70655>>, <<70748,70748>>, <<70754,70783>>, <<70856,70863>>,
       <<70874,71039>>, <<71094,71095>>, <<71134,71167>>, <<71237,71247>>, <<71258,71263>>, <<71277,71295>>, <<71354,71359>>, <<71370,71423>>,
       <<71451,71452>>, <<71468,71471>>, <<71495,71679>>, <<71740,71839>>, <<71923,71934>>, <<71943,71944>>, <<71946,71947>>, <<71956,71956>>,
       <<71959,71959>>, <<71990,71990>>, <<71993,71994>>, <<72007,72015>>, <<72026,72095>>, <<72104,72105>>, <<72152,72153>>, <<72165,72191>>,
       <<72264,72271>>, <<72355,72367>>, <<72441,72703>>, <<72713,72713>>, <<72759,72759>>, <<72774,72783>>, <<72813,72815>>, <<72848,72849>>,
       <<72872,72872>>, <<72887,72959>>, <<72967,72967>>, <<72970,72970>>, <<73015,73017>>, <<73019,73019>>, <<73022,73022>>, <<73032,73039>>,
       <<73050,73055>>, <<73062,73062>>, <<73065,73065>>, <<73103,73103>>, <<73106,73106>>, <<73113,73119>>, <<73130,73439>>, <<73465,73647>>,
       <<73649,73663>>, <<73714,73726>>, <<74650,74751>>, <<74863,74863>>, <<74869,74879>>, <<75076,77711>>, <<77811,77823>>, <<78895,82943>>,
       <<83527,92159>>, <<92729,92735>>, <<92767,92767>>, <<92778,92781>>, <<92863,92863>>, <<92874,92879>>, <<92910,92911>>, <<92918,92927>>,
       <<92998,93007>>, <<93018,93018>>, <<93026,93026>>, <<93048,93052>>, <<93072,93759>>, <<93851,93951>>, <<94027,94030>>, <<94088,94094>>,
       <<94112,94175>>, <<94181,94191>>, <<94194,94207>>, <<100344,100351>>, <<101590,101631>>, <<101641,110575>>, <<110580,110580>>, <<110588,110588>>,
       <<110591,110591>>, <<110883,110927>>, <<110931,110947>>, <<110952,110959>>, <<111356,113663>>, <<113771,113775>>, <<113789,113791>>, <<113801,113807>>,
       <<113818,113819>>, <<113824,118527>>, <<118574,118575>>, <<118599,118607>>, <<118724,118783>>, <<119030,119039>>, <<119079,119080>>, <<119155,119162>>,
       <<119275,119295>>, <<119366,119519>>, <<119540,119551>>, <<119639,119647>>, <<119673,119807>>, <<119893,119893>>, <<119965,119965>>, <<119968,119969>>,
       <<119971,119972>>, <<119975,119976>>, <<119981,119981>>, <<119994,119994>>, <<119996,119996>>, <<120004,120004>>, <<120070,120070>>, <<120075,120076>>,
       <<120085,120085>>, <<120093,120093>>, <<120122,120122>>, <<120127,120127>>, <<120133,120133>>, <<120135,120137>>, <<120145,120145>>, <<120486,120487>>,
       <<120780,120781>>, <<121484,121498>>, <<121504,121504>>, <<121520,122623>>, <<122655,122879>>, <<122887,122887>>, <<122905,122906>>, <<122914,122914>>,
       <<122917,122917>>, <<122923,123135>>, <<123181,123183>>, <<123198,123199>>, <<123210,123213>>, <<123216,123535>>, <<123567,123583>>, <<123642,123646>>,
       <<123648,124895>>, <<124903,124903>>, <<124908,124908>>, <<124911,124911>>, <<124927,124927>>, <<125125,125126>>, <<125143,125183>>, <<125260,125263>>,
       <<125274,125277>>, <<125280,126064>>, <<126133,126208>>, <<126270,126463>>, <<126468,126468>>, <<126496,126496>>, <<126499,126499>>, <<126501,126502>>,
       <<126504,126504>>, <<126515,126515>>, <<126520,126520>>, <<126522,126522>>, <<126524,126529>>, <<126531,126534>>, <<126536,126536>>, <<126538,126538>>,
       <<126540,126540>>, <<126544,126544>>, <<126547,126547>>, <<126549,126550>>, <<126552,126552>>, <<126554,126554>>, <<126556,126556>>, <<126558,126558>>,
       <<126560,126560>>, <<126563,126563>>, <<126565,126566>>, <<126571,126571>>, <<126579,126579>>, <<126584,126584>>, <<126589,126589>>, <<126591,126591>>,
       <<126602,126602>>, <<126620,126624>>, <<126628,126628>>, <<126634,126634>>, <<126652,126703>>, <<126706,126975>>, <<127020,127023>>, <<127124,127135>>,
       <<127151,127152>>, <<127168,127168>>, <<127184,127184>>, <<127222,127231>>, <<127406,127461>>, <<127491,127503>>, <<127548,127551>>, <<127561,127567>>,
       <<127570,127583>>, <<127590,127743>>, <<128728,128732>>, <<128749,128751>>, <<128765,128767>>, <<128884,128895>>, <<128985,128991>>, <<129004,129007>>,
       <<129009,129023>>, <<129036,129039>>, <<129096,129103>>, <<129114,129119>>, <<129160,129167>>, <<129198,129199>>, <<129202,129279>>, <<129620,129631>>,
       <<129646,129647>>, <<129653,129655>>, <<129661,129663>>, <<129671,129679>>, <<129709,129711>>, <<129723,129727>>, <<129734,129743>>, <<129754,129759>>,
       <<129768,129775>>, <<129783,129791>>, <<129939,129939>>, <<129995,130031>>, <<130042,131071>>, <<173792,173823>>, <<177977,177983>>, <<178206,178207>>,
       <<183970,183983>>, <<191457,194559>>, <<195102,196607>>, <<201547,917759>>, <<918000,1114111>> >>

\* c in width hexadecimal digits, lower case.
RECURSIVE hex_str(_, _)
hex_str(c, width) ==
    IF width = 0 THEN << >>
    ELSE hex_str(c \div 16, width - 1)
         \o <<IF c % 16 < 10 THEN 48 + (c % 16) ELSE 87 + (c % 16)>>

\* repr() of one code point of a str quoted by q.
char_repr(c, q) ==
    IF c = q \/ c = 92 (* backslash *) THEN <<92 (* backslash *), c>>
    ELSE IF c = 9 (* \t *) THEN <<92 (* backslash *), 116 (* t *)>>
    ELSE IF c = 10 (* \n *) THEN <<92 (* backslash *), 110 (* n *)>>
    ELSE IF c = 13 (* \r *) THEN <<92 (* backslash *), 114 (* r *)>>
    ELSE IF c < 32 \/ c = 127 THEN <<92 (* backslash *), 120 (* x *)>> \o hex_str(c, 2)
    ELSE IF c < 127 THEN <<c>>
    ELSE IF ~InRanges(c, NonPrintableRanges) THEN <<c>>
    ELSE IF c < 256 THEN <<92 (* backslash *), 120 (* x *)>> \o hex_str(c, 2)
    ELSE IF c < 65536 THEN <<92 (* backslash *), 117 (* u *)>> \o hex_str(c, 4)
    ELSE <<92 (* backslash *), 85 (* U *)>> \o hex_str(c, 8)

\* repr() of text[lo..hi], without the quotes.
RECURSIVE CharsRepr(_, _, _, _)
CharsRepr(text, q, lo, hi) ==
    IF lo > hi THEN << >>
    ELSE IF lo = hi THEN char_repr(text[lo], q)
    ELSE CharsRepr(text, q, lo, (lo + hi) \div 2) \o CharsRepr(text, q, ((lo + hi) \div 2) + 1, hi)

\* repr() of a str: single quotes, double quotes when it holds ' and no ".
str_repr(text) ==
    LET q == IF (\E i \in 1..Len(text) : text[i] = 39 (* single quote *)) /\ ~(\E i \in 1..Len(text) : text[i] = 34 (* double quote *))
             THEN 34 (* double quote *) ELSE 39 (* single quote *)
    IN  <<q>> \o CharsRepr(text, q, 1, Len(text)) \o <<q>>

\* str() of a JSON value, as `return str(result)` renders it.
RECURSIVE py_str(_)
py_str(v) ==
    CASE v.t = "null"  -> <<78,111,110,101>> (* "None" *)
      [] v.t = "bool"  -> IF v.n = 1 THEN <<84,114,117,101>> (* "True" *) ELSE <<70,97,108,115,101>> (* "False" *)
      [] v.t = "int"   -> int_str(v.n)
      [] v.t = "float" -> v.s
      [] v.t = "str"   -> str_repr(v.s)
      [] v.t = "list"  ->
           <<91 (* [ *)>> \o str_join(<<44,32>> (* ", " *), [i \in 1..Len(v.items) |-> py_str(v.items[i])]) \o <<93 (* ] *)>>
      [] v.t = "dict"  ->
           <<123 (* { *)>> \o str_join(<<44,32>> (* ", " *), [i \in 1..Len(v.keys) |->
                                   str_repr(v.keys[i]) \o <<58,32>> (* ": " *) \o py_str(v.items[i])]) \o <<125 (* } *)>>

\* str(result) at the top level: a str prints as itself.
result_str(v) == IF v.t = "str" THEN v.s ELSE py_str(v)

---------------------------------------------------------------------------
(* generate_huggingface_advice, src/app.py lines 93-127.                   *)

GeneratedTextKey == <<103,101,110,101,114,97,116,101,100,95,116,101,120,116>> (* "generated_text" *)

\* The f-string of lines 100-102: "As a financial advisor, provide 2-3 brief suggestions for a
\* {loan_type} applicant based on these desired changes: {', '.join(changes)}.\n    \nProvide
\* practical, actionable advice in simple language. Focus on how these changes improve approval
\* chances."
build_prompt(cs, lt) ==
    <<65,115,32,97,32,102,105,110,97,110,99,105,97,108,32,97,100,118,105,115,111,114,44,32,112,114,
      111,118,105,100,101,32,50,45,51,32,98,114,105,101,102,32,115,117,103,103,101,115,116,105,
      111,110,115,32,102,111,114,32,97,32>> (* "As a financial advisor, provide 2-3 brief suggestions for a " *) \o lt
    \o <<32,97,112,112,108,105,99,97,110,116,32,98,97,115,101,100,32,111,110,32,116,104,101,115,101,32,
         100,101,115,105,114,101,100,32,99,104,97,110,103,101,115,58,32>> (* " applicant based on these desired changes: " *) \o str_join(<<44,32>> (* ", " *), cs)
    \o <<46,10,32,32,32,32,10,80,114,111,118,105,100,101,32,112,114,97,99,116,105,99,97,108,44,32,97,
         99,116,105,111,110,97,98,108,101,32,97,100,118,105,99,101,32,105,110,32,115,105,109,
         112,108,101,32,108,97,110,103,117,97,103,101,46,32,70,111,99,117,115,32,111,110,32,104,
         111,119,32,116,104,101,115,101,32,99,104,97,110,103,101,115,32,105,109,112,114,111,118,
         101,32,97,112,112,114,111,118,97,108,32,99,104,97,110,99,101,115,46>> (* ".\n    \nProvide practical, actionable advice in simple language. Focus on how these changes improve approval chances." *)

\* What a call returns to its caller: a value, or an exception of class exc.
Return(text) == [raised |-> FALSE, exc |-> "", value |-> text]
Raise(cls)   == [raised |-> TRUE,  exc |-> cls, value |-> << >>]

\* `"generated_text" in item` raises TypeError on a value that is no container.
in_raises(item) == item.t \in {"null", "bool", "int", "float"}

\* `"generated_text" in item`
key_in(key, item) ==
    CASE item.t = "dict" -> \E i \in 1..Len(item.keys) : item.keys[i] = key
      [] item.t = "list" -> \E i \in 1..Len(item.items) : item.items[i] = JStr(key)
      [] item.t = "str"  -> str_contains(item.s, key)
      [] OTHER -> FALSE

\* item["generated_text"] of a dict that has the key.
dict_get(item, key) == item.items[CHOOSE i \in 1..Len(item.keys) : item.keys[i] = key]

\* Line 121 with the prompt removed only where the text starts with it.
GeneratedAdvicePrefixOnly(text, pr) ==
    str_strip(IF OccursAt(text, pr, 1) THEN SubSeq(text, Len(pr) + 1, Len(text)) ELSE text)

\* Line 121: result[0]["generated_text"].replace(prompt, "").strip()
generated_advice(text, pr) == str_strip(str_replace(text, pr, << >>))

\* Lines 117-124: what the try block makes of a response that arrived.
read_response(resp, pr) ==
    IF resp.status_code = 200
    THEN IF ~resp.json_ok THEN Raise("JSONDecodeError")
         ELSE LET result == resp.json
              IN  IF result.t = "list" /\ Len(result.items) > 0
                  THEN LET first == result.items[1]
                       IN  IF in_raises(first) THEN Raise("TypeError")
                           ELSE IF key_in(GeneratedTextKey, first)
                           THEN IF first.t # "dict" THEN Raise("TypeError")
                                ELSE LET generated == dict_get(first, GeneratedTextKey)
                                     IN  IF generated.t # "str" THEN Raise("AttributeError")
                                         ELSE Return(generated_advice(generated.s, pr))
                           ELSE Return(result_str(result))
                  ELSE Return(result_str(result))
    ELSE Return(<<65,80,73,32,101,114,114,111,114,58,32>> (* "API error: " *) \o int_str(resp.status_code))

\* The built-in exception classes that are not subclasses of Exception: BaseException
\* itself and what derives from it directly.
BaseExceptionOnly ==
    {"BaseException", "BaseExceptionGroup", "GeneratorExit", "KeyboardInterrupt", "SystemExit"}

\* isinstance(e, Exception) for an exception e of class cls: what `except Exception` catches.
is_exception(cls) == cls \notin BaseExceptionOnly

\* Lines 95-127.  `import requests` (line 95) runs before the try: what it raises leaves
\* the function as it is.  Then requests.post raised (resp.kind names the exception) or
\* answered; an Exception the try block raises is raised again as Exception, any other
\* BaseException leaves the function as it is.
generate_huggingface_advice(cs, lt, api_token, resp) ==
    IF ~resp.imported THEN Raise(resp.kind)
    ELSE LET r == IF resp.kind # "response" THEN Raise(resp.kind)
                  ELSE read_response(resp, build_prompt(cs, lt))
         IN  IF r.raised /\ is_exception(r.exc) THEN Raise("Exception") ELSE r

---------------------------------------------------------------------------
(* generate_ai_advice, src/app.py lines 72-91.                             *)

\* "Please provide specific changes to get advice."
InputRequiredText == <<80,108,101,97,115,101,32,112,114,111,118,105,100,101,32,115,112,101,99,105,102,105,99,32,99,
                       104,97,110,103,101,115,32,116,111,32,103,101,116,32,97,100,118,105,99,
                       101,46>> (* "Please provide specific changes to get advice." *)

\* The comprehension of line 77 without the filter on change.strip().
CleanUpToKeepBlank(cs, n) == [i \in 1..n |-> str_strip(cs[i])]

\* Line 77 over the first n changes: [change.strip() for change in changes if change.strip()]
RECURSIVE CleanUpTo(_, _)
CleanUpTo(cs, n) ==
    IF n = 0 THEN << >>
    ELSE CleanUpTo(cs, n - 1) \o (IF str_strip(cs[n]) # << >> THEN <<str_strip(cs[n])>> ELSE << >>)

clean_changes(cs) == CleanUpTo(cs, Len(cs))

HF_API_TOKEN == "HF_API_TOKEN"

\* A get whose fallback is a placeholder that is not empty.
SecretsGetPlaceholder(store, key, default) ==
    IF \E p \in store : p[1] = key THEN (CHOOSE p \in store : p[1] = key)[2] ELSE "none"

\* st.secrets.get(key, default): store is the set of <<key, value>> pairs configured.
secrets_get(store, key, default) ==
    IF \E p \in store : p[1] = key THEN (CHOOSE p \in store : p[1] = key)[2] ELSE default

\* The whole call: its return value, and the return statement that produced it.
generate_ai_advice(cs0, lt, store, resp) ==
    LET cs    == clean_changes(cs0)
        token == secrets_get(store, HF_API_TOKEN, "")
        hf    == generate_huggingface_advice(cs, lt, token, resp)
    IN  IF cs = << >> THEN [value |-> InputRequiredText, via |-> "input_required"]
        ELSE IF token # "" /\ ~hf.raised THEN [value |-> hf.value, via |-> "huggingface"]
        ELSE [value |-> generate_rule_based_advice(cs, lt), via |-> "rule_based"]

---------------------------------------------------------------------------
(* The inputs of one call.                                                 *)

\* The options of the "Loan Type" selectbox, src/app.py line 184.
\* "Personal Loan", "Home Loan", "SME Loan", "Auto Loan", "Education Loan"
LoanTypes ==
    { <<80,101,114,115,111,110,97,108,32,76,111,97,110>> (* "Personal Loan" *),
      <<72,111,109,101,32,76,111,97,110>> (* "Home Loan" *),
      <<83,77,69,32,76,111,97,110>> (* "SME Loan" *),
      <<65,117,116,111,32,76,111,97,110>> (* "Auto Loan" *),
      <<69,100,117,99,97,116,105,111,110,32,76,111,97,110>> (* "Education Loan" *) }

\* Lines of the "Desired Improvements" text area, and blank entries a direct caller may pass.
\* "\u00a0\t", " Increase Income by 20% ", "improve credit score", "paint the house",
\* "new job", "property loan", "Add CO-SIGNER (\u039f\u0394\u039f\u03a3 \u0130)"
ChangeSamples ==
    { <<160,9>> (* "\u00a0\t" *),
      <<32,73,110,99,114,101,97,115,101,32,73,110,99,111,109,101,32,98,121,32,50,48,37,32>> (* " Increase Income by 20% " *),
      <<105,109,112,114,111,118,101,32,99,114,101,100,105,116,32,115,99,111,114,101>> (* "improve credit score" *),
      <<112,97,105,110,116,32,116,104,101,32,104,111,117,115,101>> (* "paint the house" *),
      <<110,101,119,32,106,111,98>> (* "new job" *),
      <<112,114,111,112,101,114,116,121,32,108,111,97,110>> (* "property loan" *),
      <<65,100,100,32,67,79,45,83,73,71,78,69,82,32,40,927,916,927,931,32,304,41>> (* "Add CO-SIGNER (\u039f\u0394\u039f\u03a3 \u0130)" *) }

ChangeLists == UNION {[1..n -> ChangeSamples] : n \in 0..MaxChanges}

\* st.secrets: no token, an empty token, a token.
SecretStores == { {}, {<<HF_API_TOKEN, "">>}, {<<HF_API_TOKEN, "hf_token">>} }

\* `import requests` raised the exception named by kind.
ImportFailed(kind) ==
    [kind |-> kind, imported |-> FALSE, status_code |-> 0, json_ok |-> FALSE, json |-> JNull]

\* requests.post raised the exception named by kind.
Failed(kind) ==
    [kind |-> kind, imported |-> TRUE, status_code |-> 0, json_ok |-> FALSE, json |-> JNull]

\* requests.post returned; json_ok is false when response.json() raises.
Answered(code, ok, body) ==
    [kind |-> "response", imported |-> TRUE, status_code |-> code, json_ok |-> ok, json |-> body]

\* No request was sent.
NoResponse == Failed("none")

ErrorBody == JDict(<< <<101,114,114,111,114>> (* "error" *) >>, << JStr(<<77,111,100,101,108,32,105,115,32,108,111,97,100,105,110,103>> (* "Model is loading" *)) >>)

Generated(text) == JList(<< JDict(<<GeneratedTextKey>>, <<JStr(text)>>) >>)

\* Bodies of a 200 answer to the prompt pr.
Bodies(pr) ==
    { ErrorBody,
      JList(<< >>),
      JList(<< JDict(<< <<115,99,111,114,101>> (* "score" *), <<114,97,110,107>> (* "rank" *), <<110,111,116,101>> (* "note" *) >>,
                     << JFloat(<<48,46,53>> (* "0.5" *)), JInt(-5), JStr(<<8203,110,47,97>> (* "\u200bn/a" *)) >>) >>),
      JList(<< JBool(FALSE) >>),
      JList(<< JDict(<<GeneratedTextKey>>, <<JNull>>) >>),
      Generated(pr \o <<32,65,100,118,105,99,101,58,32,100,111,32,88>> (* " Advice: do X" *)),
      Generated(<<32,65,100,118,105,99,101,58,32,100,111,32,88,10>> (* " Advice: do X\n" *)),
      Generated(<< >>),
      Generated(pr \o <<32,160,10>> (* " \u00a0\n" *)),
      Generated(<<84,105,112,58,32>> (* "Tip: " *) \o pr \o <<32,65,100,118,105,99,101,58,32,100,111,32,88,32>> (* " Advice: do X " *) \o pr) }

\* What the endpoint can do with the request that carries the prompt pr.  The module
\* requests is installed with streamlit, which line 1 imports, so line 95 finds it.
Responses(pr) ==
    {Failed("ConnectionError"), Failed("Timeout"), Failed("KeyboardInterrupt")}
    \cup {Answered(code, TRUE, ErrorBody) : code \in {201, 503}}
    \cup {Answered(200, FALSE, JNull)}
    \cup {Answered(200, TRUE, body) : body \in Bodies(pr)}

---------------------------------------------------------------------------
(* One call of generate_ai_advice, statement by statement.                 *)

VARIABLES
    arg_changes,   \* the list the caller passes
    loan_type,     \* the loan type the caller passes
    secrets,       \* st.secrets
    pc,            \* the statement the call is at
    changes,       \* the local list after line 77
    hf_token,      \* the local of line 83
    prompt,        \* the prompt sent
    response,      \* what requests.post did
    caught,        \* the class of the exception the bare except swallowed, "" if none
    advice,        \* the list advice of generate_rule_based_advice
    result,        \* the value returned
    via,           \* the return statement taken
    posts,         \* the requests sent
    rule_calls     \* the calls of generate_rule_based_advice

vars == <<arg_changes, loan_type, secrets, pc, changes, hf_token, prompt, response,
          caught, advice, result, via, posts, rule_calls>>

inputs == <<arg_changes, loan_type, secrets>>

Init ==
    /\ arg_changes \in ChangeLists
    /\ loan_type \in LoanTypes
    /\ secrets \in SecretStores
    /\ pc = "clean"
    /\ changes = << >>
    /\ hf_token = ""
    /\ prompt = << >>
    /\ response = NoResponse
    /\ caught = ""
    /\ advice = << >>
    /\ result = << >>
    /\ via = ""
    /\ posts = 0
    /\ rule_calls = 0

\* Lines 77-80: no change is left, the message is returned.
ReturnInputRequired ==
    /\ pc = "clean"
    /\ clean_changes(arg_changes) = << >>
    /\ changes' = << >>
    /\ result' = InputRequiredText
    /\ via' = "input_required"
    /\ pc' = "done"
    /\ UNCHANGED <<inputs, hf_token, prompt, response, caught, advice, posts, rule_calls>>

\* Lines 77-84: the changes are cleaned and the token is read.
ReadToken ==
    /\ pc = "clean"
    /\ clean_changes(arg_changes) # << >>
    /\ changes' = clean_changes(arg_changes)
    /\ hf_token' = secrets_get(secrets, HF_API_TOKEN, "")
    /\ pc' = IF hf_token' # "" THEN "post" ELSE "rule"
    /\ UNCHANGED <<inputs, prompt, response, caught, advice, result, via, posts, rule_calls>>

\* Lines 100-115: the prompt is built and posted; the endpoint answers or the post raises.
PostRequest ==
    /\ pc = "post"
    /\ prompt' = build_prompt(changes, loan_type)
    /\ posts' = posts + 1
    /\ \E resp \in Responses(prompt') :
          /\ response' = resp
          /\ pc' = IF resp.kind = "response" THEN "read" ELSE "except"
    /\ UNCHANGED <<inputs, changes, hf_token, caught, advice, result, via, rule_calls>>

\* Lines 117-124 and 86: the response is read and a value returned to the caller.
ReturnGenerated ==
    /\ pc = "read"
    /\ ~read_response(response, prompt).raised
    /\ result' = generate_huggingface_advice(changes, loan_type, hf_token, response).value
    /\ via' = "huggingface"
    /\ pc' = "done"
    /\ UNCHANGED <<inputs, changes, hf_token, prompt, response, caught, advice, posts, rule_calls>>

\* Lines 117-121: reading the response raises.
ReadRaises ==
    /\ pc = "read"
    /\ read_response(response, prompt).raised
    /\ pc' = "except"
    /\ UNCHANGED <<inputs, changes, hf_token, prompt, response, caught, advice, result, via,
                   posts, rule_calls>>

\* An except clause that sends the request once more before it gives up.
ExceptRetry ==
    /\ pc = "except"
    /\ caught' = "Exception"
    /\ pc' = IF posts < 2 THEN "post" ELSE "rule"
    /\ UNCHANGED <<inputs, changes, hf_token, prompt, response, advice, result, via,
                   posts, rule_calls>>

\* Lines 126-127 and 87-88: an Exception is raised again as Exception, and the bare
\* except swallows whatever leaves generate_huggingface_advice.
ExceptPass ==
    /\ pc = "except"
    /\ caught' = generate_huggingface_advice(changes, loan_type, hf_token, response).exc
    /\ pc' = "rule"
    /\ UNCHANGED <<inputs, changes, hf_token, prompt, response, advice, result, via,
                   posts, rule_calls>>

\* Lines 91 and 129-152: the rule-based advice is computed and returned.
ReturnRuleBased ==
    /\ pc = "rule"
    /\ rule_calls' = rule_calls + 1
    /\ advice' = AdviceList(changes)
    /\ result' = generate_rule_based_advice(changes, loan_type)
    /\ via' = "rule_based"
    /\ pc' = "done"
    /\ UNCHANGED <<inputs, changes, hf_token, prompt, response, caught, posts>>

Next ==
    \/ ReturnInputRequired
    \/ ReadToken
    \/ PostRequest
    \/ ReturnGenerated
    \/ ReadRaises
    \/ ExceptPass
    \/ ReturnRuleBased

Spec == Init /\ [][Next]_vars

---------------------------------------------------------------------------
(* The call, step by step, returns what generate_ai_advice returns.        *)

StepsAgree ==
    pc = "done" =>
        /\ result = generate_ai_advice(arg_changes, loan_type, secrets, response).value
        /\ via = generate_ai_advice(arg_changes, loan_type, secrets, response).via

---------------------------------------------------------------------------
(* The vocabulary of the properties.                                       *)

\* Some entry of cs holds a character that is not whitespace.
HasNonBlank(cs) == \E i \in 1..Len(cs) : \E k \in 1..Len(cs[i]) : cs[i][k] \notin Whitespace

\* A credential is configured: the store holds a token that is not empty.
Configured == \E p \in secrets : p[1] = HF_API_TOKEN /\ p[2] # ""

\* The request failed at transport level, or was answered with a status outside 2xx.
CallFailed ==
    \/ response.kind \in {"ConnectionError", "Timeout", "KeyboardInterrupt"}
    \/ response.kind = "response" /\ response.status_code \notin 200..299

\* The item is an object with a generated_text field.
CarriesGeneratedText(item) ==
    item.t = "dict" /\ \E i \in 1..Len(item.keys) : item.keys[i] = GeneratedTextKey

\* The body of the answer is a sequence whose first item carries generated_text.
WellFormed(resp) ==
    /\ resp.json_ok
    /\ resp.json.t = "list"
    /\ Len(resp.json.items) > 0
    /\ CarriesGeneratedText(resp.json.items[1])

\* The generated_text of a well-formed answer.
GeneratedOf(resp) ==
    LET item == resp.json.items[1]
    IN  item.items[CHOOSE i \in 1..Len(item.keys) : item.keys[i] = GeneratedTextKey]

\* text without its leading whitespace.
RECURSIVE TrimLeft(_)
TrimLeft(text) ==
    IF text # << >> /\ Head(text) \in Whitespace THEN TrimLeft(Tail(text)) ELSE text

\* text without its trailing whitespace.
RECURSIVE TrimRight(_)
TrimRight(text) ==
    IF text # << >> /\ text[Len(text)] \in Whitespace
    THEN TrimRight(SubSeq(text, 1, Len(text) - 1)) ELSE text

Trimmed(text) == TrimRight(TrimLeft(text))

\* text without pr where text starts with pr.
WithoutPrefix(text, pr) ==
    IF Len(pr) <= Len(text) /\ SubSeq(text, 1, Len(pr)) = pr
    THEN SubSeq(text, Len(pr) + 1, Len(text)) ELSE text

\* The positions of text where pr, not empty, starts.
Occurrences(text, pr) ==
    {i \in 1..(Len(text) - Len(pr) + 1) :
        text[i] = pr[1] /\ SubSeq(text, i, i + Len(pr) - 1) = pr}

\* text with every occurrence of old put as new, the leftmost first.
RECURSIVE Substituted(_, _, _)
Substituted(text, old, new) ==
    LET at == Occurrences(text, old)
    IN  IF at = {} THEN text
        ELSE LET first == CHOOSE i \in at : \A j \in at : i <= j
             IN  SubSeq(text, 1, first - 1) \o new
                 \o Substituted(SubSeq(text, first + Len(old), Len(text)), old, new)

\* text with every occurrence of pr cut out.
WithoutAll(text, pr) == Substituted(text, pr, << >>)

\* The rule table of the specification, in its order of precedence.
FiveRules ==
    << [words |-> IncomeWords,     line |-> IncomeLine],
       [words |-> DebtWords,       line |-> DebtLine],
       [words |-> CreditWords,     line |-> CreditLine],
       [words |-> CollateralWords, line |-> CollateralLine],
       [words |-> GuarantorWords,  line |-> GuarantorLine] >>

\* The rule table of the code: the five rules and the employment rule.
SixRules == Append(FiveRules, [words |-> EmploymentWords, line |-> EmploymentLine])

\* The rules of table whose keyword set has a word in the lower-cased change.
Matching(table, change) ==
    LET low == str_lower(change)
    IN  {r \in 1..Len(table) :
            \E w \in 1..Len(table[r].words) : Occurrences(low, table[r].words[w]) # {}}

\* The lines table yields for the first n changes: per change the line of the
\* earliest matching rule, none when no rule matches.
RECURSIVE LinesOf(_, _, _)
LinesOf(table, cs, n) ==
    IF n = 0 THEN << >>
    ELSE LET m == Matching(table, cs[n])
         IN  LinesOf(table, cs, n - 1)
             \o (IF m = {} THEN << >>
                 ELSE <<table[CHOOSE r \in m : \A q \in m : r <= q].line>>)

\* The lines of text, split at the newlines (code point 10).
RECURSIVE SplitLines(_)
SplitLines(text) ==
    IF \E i \in 1..Len(text) : text[i] = 10
    THEN LET nl == CHOOSE i \in 1..Len(text) :
                       text[i] = 10 /\ \A j \in 1..(i - 1) : text[j] # 10
         IN  <<SubSeq(text, 1, nl - 1)>> \o SplitLines(SubSeq(text, nl + 1, Len(text)))
    ELSE <<text>>

\* The rule-based advisor has returned.
RuleBasedDone == pc = "done" /\ via = "rule_based"

---------------------------------------------------------------------------
(* The properties.                                                         *)

\* C1: with a credential configured and changes that are not all blank, when the
\* model call raises, times out or is answered with a status outside 2xx, the
\* call returns exactly the rule-based advice for the caller's changes and loan type.
C1_FailedCallFallsBack ==
    (pc = "done" /\ HasNonBlank(arg_changes) /\ Configured /\ CallFailed)
        => result = generate_rule_based_advice(arg_changes, loan_type)

\* C2: when the answer has status 200 and a body that is malformed or empty (not a
\* sequence, an empty sequence, a first item without generated_text), the call
\* returns exactly the rule-based advice and never the stringified body.
C2_MalformedBodyFallsBack ==
    (pc = "done" /\ HasNonBlank(arg_changes) /\ Configured
       /\ response.kind = "response" /\ response.status_code = 200 /\ ~WellFormed(response))
        => result = generate_rule_based_advice(arg_changes, loan_type)

\* C3: for changes with an entry that is not blank the call returns a string that
\* is not empty, whatever the credential and the outcome of the model call.
C3_AdviceNeverEmpty ==
    (pc = "done" /\ HasNonBlank(arg_changes)) => result # << >>

\* C4: when the list of changes is empty or every entry is blank, the call returns
\* the input-required message, sends no request and does not run the rule-based
\* advisor, whether or not a credential is configured.
C4_BlankInputNoCall ==
    ~HasNonBlank(arg_changes) =>
        /\ posts = 0
        /\ rule_calls = 0
        /\ pc \in {"clean", "done"}
        /\ pc = "done" => result = InputRequiredText /\ via = "input_required"

C4_Witness ==
    /\ pc = "done"
    /\ Configured
    /\ Len(arg_changes) > 0
    /\ ~HasNonBlank(arg_changes)
    /\ result = InputRequiredText

C6_FiveRuleLines ==
    RuleBasedDone => advice = LinesOf(FiveRules, changes, Len(changes))

\* C6 amended: the advisor classifies each lower-cased change against six keyword
\* sets, the five of the table and then employment/job/business; a change yields
\* the line of the earliest set it matches and no line when it matches none; the
\* output is the header naming the loan type, an empty line, and those lines in
\* input order, one per line.
C6_SixRuleLines ==
    RuleBasedDone =>
        LET expected == LinesOf(SixRules, changes, Len(changes))
        IN  /\ advice = expected
            /\ expected # << >> =>
                  SplitLines(result) =
                      << <<70,111,114,32,121,111,117,114,32>> (* "For your " *) \o loan_type \o <<32,97,112,112,108,105,99,97,116,105,111,110,44,32,73,32,114,101,99,111,109,109,101,110,100,
                                                         58>> (* " application, I recommend:" *), << >> >>
                      \o expected

C6_Witness ==
    /\ RuleBasedDone
    /\ Len(advice) = 2
    /\ \E i \in 1..Len(changes) : Cardinality(Matching(SixRules, changes[i])) > 1
    /\ \E i \in 1..Len(changes) : Matching(SixRules, changes[i]) = {6}

\* C7 as stated: when no change contains a keyword of the five keyword sets, the
\* advisor returns exactly the generic fallback sentence naming the loan type.
C7_NoFiveRuleMatchGeneric ==
    (RuleBasedDone /\ \A i \in 1..Len(changes) : Matching(FiveRules, changes[i]) = {})
        => result = GenericText(loan_type)

\* C7 amended: when no change contains a keyword of the six keyword sets of the
\* code (the five of the table and employment/job/business), the advisor returns
\* exactly the generic fallback sentence, which names the loan type.
C7_NoSixRuleMatchGeneric ==
    (RuleBasedDone /\ \A i \in 1..Len(changes) : Matching(SixRules, changes[i]) = {})
        => /\ result = GenericText(loan_type)
           /\ Occurrences(result, loan_type) # {}

C7_Witness ==
    /\ RuleBasedDone
    /\ changes = << <<112,97,105,110,116,32,116,104,101,32,104,111,117,115,101>> (* "paint the house" *) >>
    /\ result = GenericText(loan_type)

\* C8 as stated: a 200 answer with a well-formed body makes the call return the
\* generated text with the echoed prompt prefix removed and the whitespace around
\* it trimmed, without running the rule-based advisor, when that text is not empty.
C8_PromptPrefixStripped ==
    (pc = "done" /\ Configured /\ response.kind = "response" /\ response.status_code = 200
       /\ WellFormed(response)
       /\ Trimmed(WithoutPrefix(GeneratedOf(response).s, prompt)) # << >>)
        => /\ result = Trimmed(WithoutPrefix(GeneratedOf(response).s, prompt))
           /\ rule_calls = 0

\* C8 amended: a 200 answer with a well-formed body whose generated_text is a
\* string makes the call return the generated text with every occurrence of the
\* prompt removed, not only a leading one, and the whitespace around it trimmed,
\* without running the rule-based advisor, when that text is not empty.
C8_PromptOccurrencesStripped ==
    (pc = "done" /\ Configured /\ response.kind = "response" /\ response.status_code = 200
       /\ WellFormed(response) /\ GeneratedOf(response).t = "str"
       /\ Trimmed(WithoutAll(GeneratedOf(response).s, prompt)) # << >>)
        => /\ result = Trimmed(WithoutAll(GeneratedOf(response).s, prompt))
           /\ rule_calls = 0

C8_Witness ==
    /\ pc = "done"
    /\ via = "huggingface"
    /\ response = Answered(200, TRUE, Generated(prompt \o <<32,65,100,118,105,99,101,58,32,100,111,32,88>> (* " Advice: do X" *)))
    /\ result = <<65,100,118,105,99,101,58,32,100,111,32,88>> (* "Advice: do X" *)
    /\ rule_calls = 0

\* C9: one call of generate_ai_advice sends at most one request, exactly one when
\* a credential is configured and the input is not blank and none otherwise; a
\* failed request is never sent again; the rule-based advisor runs at most once,
\* and only after the model path was skipped or failed.
C9_AtMostOneRequest ==
    /\ posts <= 1
    /\ rule_calls <= 1
    /\ pc = "done" => posts = (IF Configured /\ HasNonBlank(arg_changes) THEN 1 ELSE 0)
    /\ rule_calls = 1 => \/ posts = 0 /\ ~Configured
                         \/ posts = 1 /\ caught # ""

C9_Witness ==
    /\ pc = "done"
    /\ posts = 1
    /\ rule_calls = 1
    /\ response.kind = "Timeout"

\* The answer resp to the request with the prompt own, as the answer to the request with
\* the prompt other: the generated text echoes other wherever it echoed own.
EchoedFor(resp, own, other) ==
    IF WellFormed(resp) /\ GeneratedOf(resp).t = "str"
    THEN LET item == resp.json.items[1]
             k    == CHOOSE i \in 1..Len(item.keys) : item.keys[i] = GeneratedTextKey
         IN  [resp EXCEPT !.json.items[1].items[k].s = Substituted(@, own, other)]
    ELSE resp

\* C10 as stated: the loan type never affects control flow: for the same changes,
\* credential and model outcome, every other loan type takes the same return
\* statement, and on every path, the model path included, the two outputs differ
\* only in the loan type's name.
C10_LoanTypeOnlyTemplated ==
    pc = "done" =>
        \A other \in LoanTypes :
            LET run == generate_ai_advice(arg_changes, other, secrets, response)
            IN  /\ run.via = via
                /\ run.value = Substituted(result, loan_type, other)

\* C10, corrected: for the same changes, credential and response every other loan
\* type takes the same return statement; outside the model path the two outputs
\* differ only in the loan type's name; on the model path they do so when the
\* answer echoes each run's own prompt, the prompt being stripped by line 121 only
\* where it is the prompt of the run.
C10_EchoedPromptOnlyTemplated ==
    pc = "done" =>
        \A other \in LoanTypes :
            LET run    == generate_ai_advice(arg_changes, other, secrets, response)
                echoed == generate_ai_advice(arg_changes, other, secrets,
                              EchoedFor(response, build_prompt(changes, loan_type),
                                        build_prompt(changes, other)))
            IN  /\ run.via = via
                /\ IF via = "huggingface"
                   THEN echoed.via = via /\ echoed.value = Substituted(result, loan_type, other)
                   ELSE run.value = Substituted(result, loan_type, other)

\* The model answered Home Loan's prompt followed by advice; Home Loan's run returns the
\* advice alone, the run of another loan type on the same answer returns prompt and advice.
C10_Witness ==
    /\ pc = "done"
    /\ via = "huggingface"
    /\ loan_type = <<72,111,109,101,32,76,111,97,110>> (* "Home Loan" *)
    /\ WellFormed(response)
    /\ GeneratedOf(response).t = "str"
    /\ Occurrences(GeneratedOf(response).s, prompt) = {1}
    /\ result = <<65,100,118,105,99,101,58,32,100,111,32,88>> (* "Advice: do X" *)
    /\ \E other \in LoanTypes :
          generate_ai_advice(arg_changes, other, secrets, response).value
              = GeneratedOf(response).s

============================================================================
